---- MODULE Spec2Model ----
(***************************************************************************)
(* Model of LION's Noise2Inverse solver (sub-operator construction, the    *)
(* K->1 label/target split of a mini-batch, the epoch/checkpoint loop) and *)
(* of the ACR regulariser (positive weight parametrisation, variational    *)
(* reconstruction loop with its early stop).                               *)
(*                                                                         *)
(* Python sequences are 0-based; TLA+ sequences are 1-based.  Every index  *)
(* stored in a variable is the Python (0-based) index; element j of a      *)
(* Python list l is l[j + 1] here.                                         *)
(***************************************************************************)
EXTENDS Integers, Sequences, FiniteSets

\* ---------------------------------------------------------------- bounds
MaxAngles == 6      \* geometries with 0..MaxAngles projection angles ...
FullScan == 360     \* ... and the full scan of the end-to-end scenario
MaxSplits == 4      \* sino_splits ranges over 1..MaxSplits
MaxBatch == 2       \* samples per mini-batch
MaxSteps == 2       \* mini-batch steps / test batches per run
MaxEpochs == 5      \* n_epochs ranges over -1..MaxEpochs
MaxFreq == 3        \* checkpoint_freq ranges over 1..MaxFreq
MaxIterates == 3    \* iterates ranges over 0..MaxIterates
MaxPsnr == 1        \* a measured PSNR ranges over -MaxPsnr..MaxPsnr
MaxWeight == 1      \* a raw weight entry ranges over -MaxWeight..MaxWeight

None == "None"

VARIABLES
    \* Noise2Inverse_solver: construction and batches
    n2i_pc,         \* "new" | "make_sub_operators" | "ready" | "split_loop" | "ValueError"
    geo_given,      \* FALSE when geo is None
    geo_angles,     \* geo.angles
    sino_splits,    \* self.sino_splits
    angles,         \* make_sub_operators: local copy of geo.angles
    op,             \* make_sub_operators: local list of operators
    mk_i,           \* make_sub_operators: loop variable i
    sub_op,         \* self.sub_op
    model_mode,     \* "train" | "eval" (self.model.train() / .eval())
    opt_steps,      \* number of optimizer.step() calls
    batches,        \* number of batches processed (train and test)
    last_call,      \* None | "mini_batch_step" | "test"
    nsino,          \* data.shape[0] of the current batch
    sino,           \* loop variable of the loop over the samples
    bad_recon,      \* bad_recon[split + 1][sino + 1] of the current batch
    label,          \* label[sino + 1]: the random draw of each sample
    random_target,  \* random_target[sino + 1]
    label_array,    \* label_array[sino + 1]: the reconstructions averaged
    \* Noise2Inverse_solver.train
    train_pc,       \* "idle" | "epoch_step" | "checkpoint" | "done" |
                    \* "AssertionError" | "incomplete"
    n_epochs,       \* argument of train
    checkpoint_freq,\* self.checkpoint_freq
    complete,       \* whether check_complete() passes
    current_epoch,  \* self.current_epoch
    epoch,          \* loop variable of the train loop
    events,         \* calls made so far: <<"epoch_step", e>>, <<"save_checkpoint", e>>
    \* ACR.reconstruction
    rec_pc,         \* "idle" | "loop" | "return_240" | "return_246"
    iterates,       \* self.args.iterates
    earlystop,      \* self.params.earlystop
    x_t_given,      \* x_t is not None
    y_0,            \* the sinogram
    x_0,            \* the estimate
    j,              \* loop variable
    prevpsn,
    curpsn,
    psnr_log,       \* the PSNR values measured so far, in order
    n_grad,         \* number of data-term gradients computed (line 226)
    \* ACR / ICNN_layer parametrised weights
    raw,            \* raw[layer]: parametrizations.weight.original
    accessed        \* the tensor the last read of <layer>.weight returned

n2i_vars == <<n2i_pc, geo_given, geo_angles, sino_splits, angles, op, mk_i, sub_op,
              model_mode, opt_steps, batches, last_call, nsino, sino, bad_recon, label,
              random_target, label_array>>

train_vars == <<train_pc, n_epochs, checkpoint_freq, complete, current_epoch,
                epoch, events>>

rec_vars == <<rec_pc, iterates, earlystop, x_t_given, y_0, x_0, j, prevpsn,
              curpsn, psnr_log, n_grad>>

w_vars == <<raw, accessed>>

vars == <<n2i_vars, train_vars, rec_vars, w_vars>>

\* each component leaves the other components alone
N2IFrame == UNCHANGED <<train_vars, rec_vars, w_vars>>

TrainFrame == UNCHANGED <<n2i_vars, rec_vars, w_vars>>

RecFrame == UNCHANGED <<n2i_vars, train_vars, w_vars>>

WeightsFrame == UNCHANGED <<n2i_vars, train_vars, rec_vars>>

\* ------------------------------------------------------- python helpers
Range(s) == {s[k] : k \in 1..Len(s)}

\* range(n) as a list
PyRange(n) == [k \in 1..n |-> k - 1]

\* Normalisation of a slice bound against a list of length n (step > 0):
\* a negative bound counts from the end, and the result is clamped to [0, n].
SliceBound(x, n) ==
    IF x < 0
    THEN (IF x + n < 0 THEN 0 ELSE x + n)
    ELSE (IF x > n THEN n ELSE x)

\* l[start:stop:step] for step > 0
PySlice(l, start, stop, step) ==
    LET n == Len(l)
        lo == SliceBound(start, n)
        hi == SliceBound(stop, n)
        cnt == IF hi > lo THEN (hi - lo + step - 1) \div step ELSE 0
    IN [k \in 1..cnt |-> l[lo + (k - 1) * step + 1]]

\* faulty variant of NpDelete: drops the last element, whatever obj is
NpDeleteLast(arr, obj) ==
    [k \in 1..(Len(arr) - 1) |-> arr[k]]

\* np.delete(arr, obj) for a scalar index obj inside the array
NpDelete(arr, obj) ==
    [k \in 1..(Len(arr) - 1) |-> IF k - 1 < obj THEN arr[k] ELSE arr[k + 1]]

\* ------------------------------------------------ Noise2Inverse_solver
\* The angle list of a fresh geometry: angle j is identified with its index j.
Geometry(n) == PyRange(n)

AngleCounts == (0..MaxAngles) \cup {FullScan}

N2IIdle ==
    /\ n2i_pc = "new"
    /\ geo_given = FALSE
    /\ geo_angles = <<>>
    /\ sino_splits = 1
    /\ angles = <<>>
    /\ op = <<>>
    /\ mk_i = 0
    /\ sub_op = <<>>
    /\ model_mode = "train"
    /\ opt_steps = 0
    /\ batches = 0
    /\ last_call = None
    /\ nsino = 0
    /\ sino = 0
    /\ bad_recon = <<>>
    /\ label = <<>>
    /\ random_target = <<>>
    /\ label_array = <<>>

N2IInit ==
    /\ n2i_pc = "new"
    /\ geo_given \in BOOLEAN
    /\ geo_angles \in IF geo_given THEN {Geometry(n) : n \in AngleCounts} ELSE {<<>>}
    /\ sino_splits \in 1..MaxSplits
    /\ angles = <<>>
    /\ op = <<>>
    /\ mk_i = 0
    /\ sub_op = <<>>
    /\ model_mode = "train"
    /\ opt_steps = 0
    /\ batches = 0
    /\ last_call = None
    /\ nsino = 0
    /\ sino = 0
    /\ bad_recon = <<>>
    /\ label = <<>>
    /\ random_target = <<>>
    /\ label_array = <<>>

batch_vars == <<model_mode, opt_steps, batches, last_call, nsino, sino, bad_recon, label,
                random_target, label_array>>

\* __init__ without a geometry: ValueError
SolverInitNoGeometry ==
    /\ n2i_pc = "new"
    /\ ~geo_given
    /\ n2i_pc' = "ValueError"
    /\ UNCHANGED <<geo_given, geo_angles, sino_splits, angles, op, mk_i, sub_op,
                   batch_vars>>
    /\ N2IFrame

\* __init__ calls make_sub_operators(self.geo, self.sino_splits): its entry
MakeSubOperatorsEnter ==
    /\ n2i_pc = "new"
    /\ geo_given
    /\ op' = <<>>
    /\ angles' = geo_angles
    /\ mk_i' = 0
    /\ n2i_pc' = "make_sub_operators"
    /\ UNCHANGED <<geo_given, geo_angles, sino_splits, sub_op, batch_vars>>
    /\ N2IFrame

\* faulty variant of SubAngles: angles[i::sino_splits]
SubAnglesToEnd(i) == PySlice(angles, i, Len(angles), sino_splits)

\* geo.angles = angles[i:-1:sino_splits]
SubAngles(i) == PySlice(angles, i, -1, sino_splits)

\* one iteration of "for i in range(sino_splits)"; an operator is identified
\* with the angle list of the geometry it was made from
MakeSubOperatorsLoop ==
    /\ n2i_pc = "make_sub_operators"
    /\ mk_i < sino_splits
    /\ geo_angles' = SubAngles(mk_i)
    /\ op' = Append(op, [angles |-> geo_angles'])
    /\ mk_i' = mk_i + 1
    /\ UNCHANGED <<n2i_pc, geo_given, sino_splits, angles, sub_op, batch_vars>>
    /\ N2IFrame

\* return op; self.sub_op = ...
MakeSubOperatorsReturn ==
    /\ n2i_pc = "make_sub_operators"
    /\ mk_i >= sino_splits
    /\ sub_op' = op
    /\ n2i_pc' = "ready"
    /\ UNCHANGED <<geo_given, geo_angles, sino_splits, angles, op, mk_i, batch_vars>>
    /\ N2IFrame

\* The sinogram of one sample: one row per angle of the geometry the solver
\* was given, in the same order; row r is identified with its index r.
SinoRows == PyRange(Len(angles))

\* faulty variant of SubRows: data[sino, 0, split :: self.sino_splits]
SubRowsToEnd(split) == PySlice(SinoRows, split, Len(SinoRows), sino_splits)

\* data[sino, 0, split : -1 : self.sino_splits]
SubRows(split) == PySlice(SinoRows, split, -1, sino_splits)

\* compute_noisy_sub_recon: bad_recon[split, sino] =
\*     recon_fn(sub_op[split], data[sino, 0, split:-1:sino_splits]);
\* a reconstruction is identified with its place in bad_recon and the pair
\* (operator, sinogram rows) it was computed from
ComputeNoisySubRecon(n) ==
    [split \in 1..sino_splits |->
        [s \in 1..n |->
            [split |-> split - 1, sino |-> s - 1,
             operator |-> sub_op[split], rows |-> SubRows(split - 1)]]]

\* mini_batch_step, or test on a test loader of one batch, up to the loop
\* over the samples: the sub-reconstructions are computed and label_array,
\* random_target start empty
BatchEnter(call) ==
    /\ n2i_pc = "ready"
    /\ batches < MaxSteps
    /\ \E n \in 1..MaxBatch :
         /\ nsino' = n
         /\ bad_recon' = ComputeNoisySubRecon(n)
    /\ sino' = 0
    /\ label' = <<>>
    /\ random_target' = <<>>
    /\ label_array' = <<>>
    /\ last_call' = call
    /\ n2i_pc' = "split_loop"
    /\ UNCHANGED <<geo_given, geo_angles, sino_splits, angles, op, mk_i, sub_op,
                   opt_steps, batches>>

MiniBatchStepEnter ==
    /\ BatchEnter("mini_batch_step")
    /\ UNCHANGED model_mode
    /\ N2IFrame

\* test() starts with self.model.eval()
TestEnter ==
    /\ BatchEnter("test")
    /\ model_mode' = "eval"
    /\ N2IFrame

\* np.delete(indices, label) with indices = np.arange(self.sino_splits)
Others(lab) == NpDelete(PyRange(sino_splits), lab)

\* bad_recon[index_list, sino]: the reconstructions of sample sino gathered
\* at the splits of index_list (their mean is what label_array receives)
Gather(index_list, s) ==
    [k \in 1..Len(index_list) |-> bad_recon[index_list[k] + 1][s + 1]]

\* one iteration of "for sino in range(data.shape[0])", lines 98-104 and
\* 171-177: label = np.random.randint(self.sino_splits)
SplitLoop ==
    /\ n2i_pc = "split_loop"
    /\ sino < nsino
    /\ \E lab \in 0..(sino_splits - 1) :
         /\ label' = Append(label, lab)
         /\ random_target' = Append(random_target, bad_recon[lab + 1][sino + 1])
         /\ label_array' = Append(label_array, Gather(Others(lab), sino))
    /\ sino' = sino + 1
    /\ UNCHANGED <<n2i_pc, geo_given, geo_angles, sino_splits, angles, op, mk_i,
                   sub_op, model_mode, opt_steps, batches, last_call, bad_recon,
                   nsino>>
    /\ N2IFrame

\* the rest of mini_batch_step: model.train(), forward, loss, backward, step
MiniBatchStepFinish ==
    /\ n2i_pc = "split_loop"
    /\ sino >= nsino
    /\ last_call = "mini_batch_step"
    /\ model_mode' = "train"
    /\ opt_steps' = opt_steps + 1
    /\ batches' = batches + 1
    /\ n2i_pc' = "ready"
    /\ UNCHANGED <<geo_given, geo_angles, sino_splits, angles, op, mk_i, sub_op,
                   last_call, bad_recon, nsino, sino, label, random_target,
                   label_array>>
    /\ N2IFrame

\* the rest of test: forward and loss under no_grad, no optimizer step
TestFinish ==
    /\ n2i_pc = "split_loop"
    /\ sino >= nsino
    /\ last_call = "test"
    /\ batches' = batches + 1
    /\ n2i_pc' = "ready"
    /\ UNCHANGED <<geo_given, geo_angles, sino_splits, angles, op, mk_i, sub_op,
                   model_mode, opt_steps, last_call, bad_recon, nsino, sino, label,
                   random_target, label_array>>
    /\ N2IFrame

N2INext ==
    \/ SolverInitNoGeometry
    \/ MakeSubOperatorsEnter
    \/ MakeSubOperatorsLoop
    \/ MakeSubOperatorsReturn
    \/ MiniBatchStepEnter
    \/ TestEnter
    \/ SplitLoop
    \/ MiniBatchStepFinish
    \/ TestFinish

\* ------------------------------------------ Noise2Inverse_solver.train
TrainIdle ==
    /\ train_pc = "idle"
    /\ n_epochs = 1
    /\ checkpoint_freq = 1
    /\ complete = TRUE
    /\ current_epoch = 0
    /\ epoch = 0
    /\ events = <<>>

TrainInit ==
    /\ train_pc = "idle"
    /\ n_epochs \in (-1)..MaxEpochs
    /\ checkpoint_freq \in 1..MaxFreq
    /\ complete \in BOOLEAN
    /\ current_epoch = 0
    /\ epoch = 0
    /\ events = <<>>

\* assert n_epochs > 0
TrainAssertFails ==
    /\ train_pc = "idle"
    /\ ~(n_epochs > 0)
    /\ train_pc' = "AssertionError"
    /\ UNCHANGED <<n_epochs, checkpoint_freq, complete, current_epoch, epoch, events>>
    /\ TrainFrame

\* self.check_complete() raises when a required parameter is not set
TrainCheckCompleteFails ==
    /\ train_pc = "idle"
    /\ n_epochs > 0
    /\ ~complete
    /\ train_pc' = "incomplete"
    /\ UNCHANGED <<n_epochs, checkpoint_freq, complete, current_epoch, epoch, events>>
    /\ TrainFrame

\* lines 144-152: the checks pass, the loop starts at epoch 0
TrainEnter ==
    /\ train_pc = "idle"
    /\ n_epochs > 0
    /\ complete
    /\ current_epoch' = n_epochs
    /\ epoch' = 0
    /\ train_pc' = "epoch_step"
    /\ UNCHANGED <<n_epochs, checkpoint_freq, complete, events>>
    /\ TrainFrame

\* line 153: self.epoch_step(epoch)
TrainEpochStep ==
    /\ train_pc = "epoch_step"
    /\ events' = Append(events, <<"epoch_step", epoch>>)
    /\ train_pc' = "checkpoint"
    /\ UNCHANGED <<n_epochs, checkpoint_freq, complete, current_epoch, epoch>>
    /\ TrainFrame

\* faulty variant of CheckpointDue: epoch % self.checkpoint_freq == 0
CheckpointDueAtStart(e) == e % checkpoint_freq = 0

\* (epoch + 1) % self.checkpoint_freq == 0
CheckpointDue(e) == (e + 1) % checkpoint_freq = 0

\* lines 154-155, then the next value of range(self.current_epoch)
TrainCheckpoint ==
    /\ train_pc = "checkpoint"
    /\ events' = IF CheckpointDue(epoch)
                 THEN Append(events, <<"save_checkpoint", epoch>>)
                 ELSE events
    /\ IF epoch + 1 < current_epoch
       THEN epoch' = epoch + 1 /\ train_pc' = "epoch_step"
       ELSE epoch' = epoch /\ train_pc' = "done"
    /\ UNCHANGED <<n_epochs, checkpoint_freq, complete, current_epoch>>
    /\ TrainFrame

TrainNext ==
    \/ TrainAssertFails
    \/ TrainCheckCompleteFails
    \/ TrainEnter
    \/ TrainEpochStep
    \/ TrainCheckpoint

\* --------------------------------------------------- ACR.reconstruction
Sinograms == {"y_a", "y_b"}

PsnrValues == (-MaxPsnr)..MaxPsnr

\* fbp(y_0): an estimate is identified with the sinogram it was computed
\* from and the number of optimizer steps applied to it since
Fbp(y) == [fbp_of |-> y, steps |-> 0]

\* optimizer.step() on x_0
SgdStep(x) == [x EXCEPT !.steps = @ + 1]

RecIdle ==
    /\ rec_pc = "idle"
    /\ iterates = 0
    /\ earlystop = TRUE
    /\ x_t_given = FALSE
    /\ y_0 = "y_a"
    /\ x_0 = Fbp("y_a")
    /\ j = 0
    /\ prevpsn = 0
    /\ curpsn = 0
    /\ psnr_log = <<>>
    /\ n_grad = 0

RecInit ==
    /\ rec_pc = "idle"
    /\ iterates \in 0..MaxIterates
    /\ earlystop \in BOOLEAN
    /\ x_t_given \in BOOLEAN
    /\ y_0 \in Sinograms
    /\ x_0 = Fbp("y_a")
    /\ j = 0
    /\ prevpsn = 0
    /\ curpsn = 0
    /\ psnr_log = <<>>
    /\ n_grad = 0

\* lines 212-223
ReconstructionEnter ==
    /\ rec_pc = "idle"
    /\ x_0' = Fbp(y_0)
    /\ prevpsn' = 0
    /\ curpsn' = 0
    /\ j' = 0
    /\ rec_pc' = "loop"
    /\ UNCHANGED <<iterates, earlystop, x_t_given, y_0, psnr_log, n_grad>>
    /\ RecFrame

\* self.params.earlystop is True and curpsn < prevpsn, after
\* prevpsn = curpsn; curpsn = psnr
StopNow(psnr) == earlystop /\ psnr < curpsn

\* faulty variant of LoopContinues: range(self.args.iterates + 1)
LoopContinuesInclusive == j <= iterates

\* for j in range(self.args.iterates): whether there is a next iteration
LoopContinues == j < iterates

\* one iteration of "for j in range(self.args.iterates)", lines 225-245;
\* psnr is what self.psnr(x_0, x_t) returns in this iteration
ReconstructionLoop ==
    /\ rec_pc = "loop"
    /\ LoopContinues
    /\ n_grad' = n_grad + 1
    /\ \E psnr \in PsnrValues :
         IF x_t_given
         THEN /\ psnr_log' = Append(psnr_log, psnr)
              /\ prevpsn' = curpsn
              /\ curpsn' = psnr
              /\ IF StopNow(psnr)
                 THEN rec_pc' = "return_240" /\ UNCHANGED <<x_0, j>>
                 ELSE /\ x_0' = SgdStep(x_0)
                      /\ j' = j + 1
                      /\ rec_pc' = "loop"
         ELSE /\ x_0' = SgdStep(x_0)
              /\ j' = j + 1
              /\ UNCHANGED <<rec_pc, psnr_log, prevpsn, curpsn>>
    /\ UNCHANGED <<iterates, earlystop, x_t_given, y_0>>
    /\ RecFrame

\* line 246: the loop is exhausted
ReconstructionReturn ==
    /\ rec_pc = "loop"
    /\ ~LoopContinues
    /\ rec_pc' = "return_246"
    /\ UNCHANGED <<iterates, earlystop, x_t_given, y_0, x_0, j, prevpsn, curpsn,
                   psnr_log, n_grad>>
    /\ RecFrame

RecNext ==
    \/ ReconstructionEnter
    \/ ReconstructionLoop
    \/ ReconstructionReturn

\* ------------------------------------------------ parametrised weights
\* the convolutions registered with Positive(): ICNN_layer.blue, ACR.last_layer
Layers == {"blue", "last_layer"}

\* a weight tensor has two entries
Entries == {"w0", "w1"}

RawValues == (-MaxWeight)..MaxWeight

Tensors == [Entries -> RawValues]

\* faulty variant of Positive: no clipping
Unconstrained(X) == X

\* Positive.forward: torch.clip(X, min=0.0)
Positive(X) == [e \in DOMAIN X |-> IF X[e] < 0 THEN 0 ELSE X[e]]

NotAccessed == [layer |-> "none", value |-> [e \in Entries |-> 0]]

WeightsIdle ==
    /\ raw = [l \in Layers |-> [e \in Entries |-> 0]]
    /\ accessed = NotAccessed

WeightsInit ==
    /\ raw \in [Layers -> Tensors]
    /\ accessed = NotAccessed

\* an update of the trainable tensor parametrizations.weight.original of one
\* layer; tensors read before the update are stale
UpdateRaw ==
    /\ \E l \in Layers, t \in Tensors : raw' = [raw EXCEPT ![l] = t]
    /\ accessed' = NotAccessed
    /\ WeightsFrame

\* a read of <layer>.weight goes through the registered parametrisation
Weight(l) == Positive(raw[l])

\* ICNN_layer.forward: self.blue(z) reads self.blue.weight
BlueForward ==
    /\ accessed' = [layer |-> "blue", value |-> Weight("blue")]
    /\ UNCHANGED raw
    /\ WeightsFrame

\* ACR.forward: self.last_layer(z) reads self.last_layer.weight
LastLayerForward ==
    /\ accessed' = [layer |-> "last_layer", value |-> Weight("last_layer")]
    /\ UNCHANGED raw
    /\ WeightsFrame

WeightsNext ==
    \/ UpdateRaw
    \/ BlueForward
    \/ LastLayerForward

\* ----------------------------------------------------------------- claims
Built == n2i_pc \in {"ready", "split_loop"}

IsAscending(l) == \A k \in 1..(Len(l) - 1) : l[k] < l[k + 1]

\* the indices i, i + K, i + 2K, ... below the last index of the angle list
StrideIndices(i) ==
    {a \in 0..(Len(angles) - 2) : a >= i /\ (a - i) % sino_splits = 0}

\* C1: for every sample already split in mini_batch_step or test, whatever
\* the draw, random_target is the reconstruction of the drawn split, and the
\* reconstructions averaged into label_array are those of the other K-1
\* splits of the same sample, each exactly once and never the drawn one.
SelfExclusion ==
    \A s \in 1..Len(label) :
        LET averaged == [k \in 1..Len(label_array[s]) |-> label_array[s][k].split]
        IN  /\ random_target[s] = bad_recon[label[s] + 1][s]
            /\ random_target[s].split = label[s]
            /\ label[s] \notin Range(averaged)
            /\ Range(averaged) = (0..(sino_splits - 1)) \ {label[s]}
            /\ Len(averaged) = sino_splits - 1
            /\ \A k \in 1..Len(averaged) :
                 label_array[s][k] = bad_recon[averaged[k] + 1][s]

\* C1 witness: a training batch and then a test batch of two samples with
\* three splits, the two samples drawing different labels
SelfExclusionWitness ==
    /\ n2i_pc = "ready"
    /\ last_call = "test"
    /\ opt_steps = 1
    /\ batches = 2
    /\ sino_splits = 3
    /\ Len(label) = 2
    /\ label[1] = 2
    /\ label[2] = 0
    /\ Len(label_array[1]) = 2

\* C2: once make_sub_operators has returned there are exactly K operators,
\* operator i is built from the angle indices i, i+K, i+2K, ... below the
\* last index of the original list, in ascending order, and the index sets
\* of two different operators are disjoint.
SubOperatorCount ==
    Built =>
        /\ Len(sub_op) = sino_splits
        /\ \A i \in 0..(sino_splits - 1) :
             /\ Range(sub_op[i + 1].angles) = StrideIndices(i)
             /\ IsAscending(sub_op[i + 1].angles)
        /\ \A i1, i2 \in 0..(sino_splits - 1) :
             i1 # i2 =>
                Range(sub_op[i1 + 1].angles) \cap Range(sub_op[i2 + 1].angles) = {}

\* C2 witness: six angles in three splits: {0, 3}, {1, 4}, {2}
SubOperatorCountWitness ==
    /\ n2i_pc = "ready"
    /\ Len(angles) = 6
    /\ sino_splits = 3
    /\ sub_op = <<[angles |-> <<0, 3>>], [angles |-> <<1, 4>>], [angles |-> <<2>>]>>

\* C3: when the number of angles is a multiple of K (360 angles and K = 4 in
\* the scenario), each of the K operators is built from N/K angles.
EqualAngularCoverage ==
    (Built /\ Len(angles) % sino_splits = 0) =>
        /\ Len(sub_op) = sino_splits
        /\ \A i \in 1..sino_splits :
             Len(sub_op[i].angles) = Len(angles) \div sino_splits

\* C8: when make_sub_operators has returned, geo.angles is again the full
\* angle list it held at entry.
GeometryRestored ==
    Built => geo_angles = angles

\* C10: every reconstruction of bad_recon[split, sino] is computed by the
\* sub-operator of its own split from the sinogram rows at exactly the angle
\* indices that operator was built from, so the row count equals the
\* operator's angle count.
SplitOperatorConsistency ==
    \A i \in 1..Len(bad_recon) :
        \A s \in 1..Len(bad_recon[i]) :
            /\ bad_recon[i][s].operator = sub_op[i]
            /\ bad_recon[i][s].rows = sub_op[i].angles
            /\ Range(bad_recon[i][s].rows) = StrideIndices(i - 1)
            /\ Len(bad_recon[i][s].rows) = Len(bad_recon[i][s].operator.angles)

\* C10 witness: five angles in two splits; split 1 reconstructs rows 1, 3
SplitOperatorConsistencyWitness ==
    /\ n2i_pc = "split_loop"
    /\ Len(angles) = 5
    /\ sino_splits = 2
    /\ nsino = 2
    /\ bad_recon[2][2].rows = <<1, 3>>
    /\ bad_recon[1][2].rows = <<0, 2>>

Returned == rec_pc \in {"return_240", "return_246"}

\* C4: with early stopping enabled and a reference image given, the PSNR
\* values measured up to the return are non-decreasing.
EarlyStopMonotone ==
    (Returned /\ earlystop /\ x_t_given) =>
        \A k \in 1..(Len(psnr_log) - 1) : psnr_log[k] <= psnr_log[k + 1]

\* C5: with iterates = 0 reconstruction returns at the end of the function,
\* with fbp(y_0) as the estimate, no optimizer step applied, no data-term
\* gradient computed and no PSNR measured, with or without a reference.
ZeroIterate ==
    (Returned /\ iterates = 0) =>
        /\ rec_pc = "return_246"
        /\ x_0 = [fbp_of |-> y_0, steps |-> 0]
        /\ n_grad = 0
        /\ psnr_log = <<>>

\* C5 witness: a zero-iterate call with a reference image has returned
ZeroIterateWitness ==
    /\ rec_pc = "return_246"
    /\ iterates = 0
    /\ x_t_given
    /\ y_0 = "y_b"
    /\ x_0.fbp_of = "y_b"

\* C9: the early return is taken only with early stopping enabled, a
\* reference given and a PSNR strictly below the PSNR measured in the
\* previous iteration of the same run; never in the first iteration.
EarlyStopOnlyOnDecrease ==
    rec_pc = "return_240" =>
        /\ earlystop
        /\ x_t_given
        /\ Len(psnr_log) >= 2
        /\ psnr_log[Len(psnr_log)] < psnr_log[Len(psnr_log) - 1]

EpochPositions == {p \in 1..Len(events) : events[p][1] = "epoch_step"}

SavePositions == {p \in 1..Len(events) : events[p][1] = "save_checkpoint"}

\* epochs completed since the last checkpoint (or since the start)
SinceCheckpoint ==
    Cardinality({p \in EpochPositions : \A q \in SavePositions : q < p})

\* the schedule shared by C6 and its amended form: the epoch steps run are
\* 0, 1, 2, ... in order, n_epochs of them once train is done; a checkpoint
\* of epoch e comes right after epoch step e, and exactly when (e + 1) is a
\* multiple of checkpoint_freq; n_epochs <= 0 ends in the assertion error
\* with no epoch step and no checkpoint.
ScheduleHolds ==
    /\ \A p \in EpochPositions :
         /\ events[p][2] = Cardinality({q \in EpochPositions : q < p})
         /\ ((events[p][2] + 1) % checkpoint_freq = 0 /\ p < Len(events))
               => events[p + 1] = <<"save_checkpoint", events[p][2]>>
         /\ ((events[p][2] + 1) % checkpoint_freq = 0 /\ p = Len(events))
               => train_pc = "checkpoint"
    /\ \A p \in SavePositions :
         /\ p > 1
         /\ events[p - 1] = <<"epoch_step", events[p][2]>>
         /\ (events[p][2] + 1) % checkpoint_freq = 0
    /\ train_pc = "done" => Cardinality(EpochPositions) = n_epochs
    /\ Cardinality(EpochPositions) <= n_epochs \/ events = <<>>
    /\ n_epochs <= 0 => (train_pc \in {"idle", "AssertionError"} /\ events = <<>>)
    /\ train_pc \in {"AssertionError", "incomplete"} => events = <<>>

\* C6 as stated: the schedule, and at every point of the run fewer than
\* checkpoint_freq epochs completed since the last checkpoint.
CheckpointScheduleStrict ==
    /\ ScheduleHolds
    /\ SinceCheckpoint < checkpoint_freq

\* C6 amended: the schedule, and at every point of the run at most
\* checkpoint_freq epochs completed since the last checkpoint; exactly
\* checkpoint_freq only between the return of an epoch step and the
\* save_checkpoint call that follows it, fewer at every other point.
CheckpointSchedule ==
    /\ ScheduleHolds
    /\ SinceCheckpoint <= checkpoint_freq
    /\ train_pc # "checkpoint" => SinceCheckpoint < checkpoint_freq

\* C6 witness: five epochs with checkpoint_freq 2 are done: checkpoints
\* after epochs 1 and 3
CheckpointScheduleWitness ==
    /\ train_pc = "done"
    /\ n_epochs = 5
    /\ checkpoint_freq = 2
    /\ events = << <<"epoch_step", 0>>, <<"epoch_step", 1>>, <<"save_checkpoint", 1>>,
                   <<"epoch_step", 2>>, <<"epoch_step", 3>>, <<"save_checkpoint", 3>>,
                   <<"epoch_step", 4>> >>

\* C7: the tensor a read of blue.weight or last_layer.weight returns has no
\* negative entry and equals max(raw, 0) entry by entry, whatever the raw
\* values are.
PositivityInvariant ==
    accessed.layer \in Layers =>
        \A e \in Entries :
            /\ accessed.value[e] >= 0
            /\ accessed.value[e] =
                  (IF raw[accessed.layer][e] > 0 THEN raw[accessed.layer][e] ELSE 0)

\* C7 witness: last_layer.weight read with one negative and one positive raw
\* entry
PositivityInvariantWitness ==
    /\ accessed.layer = "last_layer"
    /\ raw["last_layer"]["w0"] = -1
    /\ raw["last_layer"]["w1"] = 1
    /\ accessed.value["w0"] = 0
    /\ accessed.value["w1"] = 1

\* --------------------------------------------------------- specifications
\* the Noise2Inverse solver: construction and batches
Init == N2IInit /\ TrainIdle /\ RecIdle /\ WeightsIdle

Next == N2INext

Spec == Init /\ [][Next]_vars

\* Noise2Inverse_solver.train
InitTrain == N2IIdle /\ TrainInit /\ RecIdle /\ WeightsIdle

NextTrain == TrainNext

SpecTrain == InitTrain /\ [][NextTrain]_vars

\* ACR.reconstruction
InitRecon == N2IIdle /\ TrainIdle /\ RecInit /\ WeightsIdle

NextRecon == RecNext

SpecRecon == InitRecon /\ [][NextRecon]_vars

\* the parametrised weights
InitWeights == N2IIdle /\ TrainIdle /\ RecIdle /\ WeightsInit

NextWeights == WeightsNext

SpecWeights == InitWeights /\ [][NextWeights]_vars

====
